---- MODULE Spec2Model ----
(***************************************************************************)
(* A model of bzip2rs, the bzip2-compatible command line front end:       *)
(* argument interpretation (src/src/cli.rs), the per-file compress,       *)
(* decompress and test loops with their filesystem effects                 *)
(* (src/src/main.rs), and the engine wrappers (src/src/bzip2.rs).          *)
(*                                                                         *)
(* A file name is a sequence of characters, so that ends_with,             *)
(* strip_suffix and format!("{file}.bz2") are computed on the characters.  *)
(* A file's content is a sequence of tokens: the engine's compress puts a  *)
(* stream header token in front of the bytes it read, and its decompress   *)
(* accepts only content that starts with that token and yields the rest.   *)
(* Every fallible system call (open, create, remove_file, the engine's     *)
(* copy loop) may fail; which files exist restricts which can succeed.     *)
(* An engine call that returns Ok has left its whole output in the         *)
(* destination; one that returns an error leaves a partial output there.   *)
(***************************************************************************)
EXTENDS Integers, Sequences, FiniteSets, TLC

VARIABLES fs, fs0, argv0, cli, phase, selected, idx, errs, log, result, level, hist

vars == <<fs, fs0, argv0, cli, phase, selected, idx, errs, log, result, level, hist>>

(***************************************************************************)
(* Bounds of the model.                                                    *)
(***************************************************************************)
\* longest list of input files given to one run of Spec
MaxFiles == 2
\* longest list of input files given to the argument interpretation of SpecCli
MaxCliFiles == 2

(***************************************************************************)
(* File names.                                                             *)
(***************************************************************************)
Bz2 == <<".", "b", "z", "2">>
Tbz2 == <<".", "t", "b", "z", "2">>
Tbz == <<".", "t", "b", "z">>
Tz2 == <<".", "t", "z", "2">>

\* str::ends_with
EndsWith(s, suffix) ==
    /\ Len(s) >= Len(suffix)
    /\ SubSeq(s, Len(s) - Len(suffix) + 1, Len(s)) = suffix

\* str::strip_suffix(..).unwrap(), used only where ends_with holds
StripSuffix(s, suffix) == SubSeq(s, 1, Len(s) - Len(suffix))

\* the paths the modelled file system holds
NameA == <<"a">>
NameABz2 == NameA \o Bz2
NameABz2Bz2 == NameABz2 \o Bz2
FsPaths == {NameA, NameABz2, NameABz2Bz2}

\* names given to the argument interpretation alone
CliNames == {NameA, NameABz2, NameA \o Tbz2, NameA \o Tbz, NameA \o Tz2}

\* all sequences over S of length at most n
RECURSIVE SeqsUpTo(_, _)
SeqsUpTo(S, n) ==
    IF n = 0 THEN {<<>>}
    ELSE LET shorter == SeqsUpTo(S, n - 1)
         IN  shorter \cup {Append(q, x) : q \in {r \in shorter : Len(r) = n - 1}, x \in S}

(***************************************************************************)
(* File contents and the engine.                                           *)
(***************************************************************************)
Absent == [exists |-> FALSE, bytes |-> <<>>]
File(b) == [exists |-> TRUE, bytes |-> b]
\* what a destination holds when the engine failed after File::create
Partial == <<"partial">>

\* the stream the engine writes for the bytes it read
Encode(b) == <<"BZh">> \o b
\* whether the engine's decoder accepts the bytes
Decodable(b) == Len(b) >= 1 /\ b[1] = "BZh"
\* what the decoder yields for bytes it accepts
Decode(b) == Tail(b)

Exists(f, path) == path \in DOMAIN f /\ f[path].exists

(***************************************************************************)
(* Errors (main.rs, enum Error) and Error::error_or.                       *)
(***************************************************************************)
Io == [kind |-> "Io", name |-> <<>>]
CannotWriteToStdout == [kind |-> "CannotWriteToStdout", name |-> <<>>]
CannotGuessOriginalName(name) == [kind |-> "CannotGuessOriginalName", name |-> name]
FileExists(name) == [kind |-> "FileExists", name |-> name]
InvalidInput(name) == [kind |-> "InvalidInput", name |-> name]

NoResult == [set |-> FALSE, ok |-> FALSE, array |-> FALSE, errs |-> <<>>]
Ok == [set |-> TRUE, ok |-> TRUE, array |-> FALSE, errs |-> <<>>]
\* Err(e) for one error, Err(Error::Array(es)) for several
Err(es, array) == [set |-> TRUE, ok |-> FALSE, array |-> array, errs |-> es]

\* a faulty error_or: a single error is dropped
error_or_lenient(es) == IF Len(es) <= 1 THEN Ok ELSE Err(es, TRUE)

error_or(es) ==
    IF Len(es) = 0 THEN Ok
    ELSE IF Len(es) = 1 THEN Err(es, FALSE)
    ELSE Err(es, TRUE)

(***************************************************************************)
(* The parsed command line (cli.rs, struct Bzip2Cli) and its methods.      *)
(***************************************************************************)
None == [some |-> FALSE, value |-> 0]
Some(v) == [some |-> TRUE, value |-> v]

\* args[0].split('/').next_back(): argv0 is the list of its '/'-separated parts
program_name(a0) == a0[Len(a0)]

init(c) == c.license \/ c.version

is_empty(c) == Len(c.input_files) = 0

is_stdout(c, pname) == c.stdout \/ pname = "bzcat"

compress_level(c) ==
    IF c.fast THEN 1
    ELSE IF c.best THEN 9
    ELSE IF c.block_size.some THEN c.block_size.value
    ELSE 6

mode(c, pname) ==
    IF c.decompress \/ pname = "bunzip2" \/ pname = "bzcat" THEN "Decompress"
    ELSE IF c.test THEN "Test"
    ELSE IF \A i \in 1..Len(c.input_files) :
                \/ EndsWith(c.input_files[i], Bz2)
                \/ EndsWith(c.input_files[i], Tbz2)
                \/ EndsWith(c.input_files[i], Tbz)
                \/ EndsWith(c.input_files[i], Tz2)
         THEN "Decompress"
    ELSE "Compress"

\* the destination perform_compress names: format!("{file}.bz2")
compress_dest(file) == file \o Bz2

\* a faulty destination: the suffix is not stripped
decompress_dest_unstripped(file) == file

\* the destination perform_decompress names: file.strip_suffix(".bz2").unwrap()
decompress_dest(file) == StripSuffix(file, Bz2)

(***************************************************************************)
(* The per-file operations of main.rs.  Each yields the set of outcomes    *)
(* the system calls allow: the file system afterwards, the errors pushed,  *)
(* how far the operation got, whether the input was removed, and whether   *)
(* the engine was called.                                                  *)
(***************************************************************************)
Outcome(f, es, tag, engine) ==
    [fs |-> f, errs |-> es, tag |-> tag, removed |-> FALSE, engine |-> engine]

\* a faulty removal: -k is not consulted
remove_input_always(file, c, o) ==
    (IF Exists(o.fs, file)
     THEN {[o EXCEPT !.fs = [o.fs EXCEPT ![file] = Absent], !.removed = TRUE]}
     ELSE {})
    \cup {[o EXCEPT !.errs = Append(o.errs, Io)]}

\* the trailing "if !cli.keep { remove_file(file) }" of compress and decompress_each
remove_input(file, c, o) ==
    IF c.keep THEN {o}
    ELSE (IF Exists(o.fs, file)
          THEN {[o EXCEPT !.fs = [o.fs EXCEPT ![file] = Absent], !.removed = TRUE]}
          ELSE {})
         \cup {[o EXCEPT !.errs = Append(o.errs, Io)]}

\* compress, up to the removal: File::open, File::create, bzip2::compress
compress_io(file, dest, f, c) ==
    {Outcome(f, <<Io>>, "open_err", FALSE)}
    \cup (IF ~Exists(f, file) THEN {}
          ELSE IF c.stdout
          THEN {Outcome(f, <<>>, "ok", TRUE), Outcome(f, <<Io>>, "engine_err", TRUE)}
          ELSE {Outcome(f, <<Io>>, "create_err", FALSE),
                Outcome([f EXCEPT ![dest] = File(Encode(f[file].bytes))], <<>>, "ok", TRUE),
                Outcome([f EXCEPT ![dest] = File(Partial)], <<Io>>, "engine_err", TRUE)})

compress(file, dest, f, c) ==
    UNION {remove_input(file, c, o) : o \in compress_io(file, dest, f, c)}

\* decompress_each, up to the removal: File::open, File::create, bzip2::decompress
decompress_io(file, dest, f, c, pname) ==
    {Outcome(f, <<Io>>, "open_err", FALSE)}
    \cup (IF ~Exists(f, file) THEN {}
          ELSE IF is_stdout(c, pname)
          THEN {Outcome(f, <<Io>>, "engine_err", TRUE)}
               \cup (IF Decodable(f[file].bytes) THEN {Outcome(f, <<>>, "ok", TRUE)} ELSE {})
          ELSE {Outcome(f, <<Io>>, "create_err", FALSE),
                Outcome([f EXCEPT ![dest] = File(Partial)], <<Io>>, "engine_err", TRUE)}
               \cup (IF Decodable(f[file].bytes)
                     THEN {Outcome([f EXCEPT ![dest] = File(Decode(f[file].bytes))],
                                   <<>>, "ok", TRUE)}
                     ELSE {}))

decompress_each(file, dest, f, c, pname) ==
    UNION {remove_input(file, c, o) : o \in decompress_io(file, dest, f, c, pname)}

\* a faulty overwrite guard: the sense of -f is inverted
refuses_overwrite_inverted(dest, f, c) == c.force /\ Exists(f, dest)

\* the overwrite guard of both loops: !cli.force && Path::new(dest).exists()
refuses_overwrite(dest, f, c) == ~c.force /\ Exists(f, dest)

\* one iteration of perform_compress's loop
compress_iteration(file, f, c) ==
    IF EndsWith(file, Bz2)
    THEN {Outcome(f, <<InvalidInput(file)>>, "invalid_input", FALSE)}
    ELSE LET dest == compress_dest(file)
         IN  IF refuses_overwrite(dest, f, c)
             THEN {Outcome(f, <<FileExists(dest)>>, "file_exists", FALSE)}
             ELSE compress(file, dest, f, c)

\* one iteration of perform_decompress's loop
decompress_iteration(file, f, c, pname) ==
    IF ~EndsWith(file, Bz2)
    THEN {Outcome(f, <<CannotGuessOriginalName(file)>>, "cannot_guess", FALSE)}
    ELSE LET dest == decompress_dest(file)
         IN  IF refuses_overwrite(dest, f, c)
             THEN {Outcome(f, <<FileExists(dest)>>, "file_exists", FALSE)}
             ELSE decompress_each(file, dest, f, c, pname)

\* one iteration of perform_test's loop: File::open, bzip2::test_integrity
test_iteration(file, f) ==
    {Outcome(f, <<Io>>, "open_err", FALSE)}
    \cup (IF ~Exists(f, file) THEN {}
          ELSE {Outcome(f, <<Io>>, "engine_err", TRUE)}
               \cup (IF Decodable(f[file].bytes) THEN {Outcome(f, <<>>, "ok", TRUE)} ELSE {}))

\* after the loop, with no input files: stdin to stdout, or the refusal to
\* write to a terminal.  The errors pushed.
stdin_errors(to_stdout) ==
    IF to_stdout THEN {<<>>, <<Io>>} ELSE {<<CannotWriteToStdout>>}

(***************************************************************************)
(* do_main and the three loops as actions.  phase is "idle" before a run,  *)
(* "run" inside a loop (idx is the next input file) and "done" after       *)
(* do_main returned.                                                       *)
(***************************************************************************)
Summary(a0, c, sel, r, before, l, lv) ==
    [argv0 |-> a0, cli |-> c, selected |-> sel, result |-> r, before |-> before,
     log |-> l, level |-> lv]

\* do_main up to the dispatch on cli.mode(pname)
do_main(a0, c) ==
    /\ phase # "run"
    /\ argv0' = a0
    /\ cli' = c
    /\ fs0' = fs
    /\ errs' = <<>>
    /\ log' = <<>>
    /\ idx' = 1
    /\ level' = {}
    /\ UNCHANGED fs
    /\ IF init(c)
       THEN /\ phase' = "done"
            /\ selected' = "none"
            /\ result' = Ok
            /\ hist' = Append(hist, Summary(a0, c, "none", Ok, fs, <<>>, {}))
       ELSE /\ phase' = "run"
            /\ selected' = mode(c, program_name(a0))
            /\ result' = NoResult
            /\ hist' = hist

\* a loop iteration took outcome o for input file `file`
Iterate(file, o) ==
    /\ fs' = o.fs
    /\ errs' = errs \o o.errs
    /\ log' = Append(log, [file |-> file, tag |-> o.tag, removed |-> o.removed])
    /\ idx' = idx + 1
    /\ level' = IF o.engine /\ selected = "Compress"
                THEN level \cup {compress_level(cli)} ELSE level
    /\ UNCHANGED <<fs0, argv0, cli, phase, selected, result, hist>>

\* the end of a loop: the no-input case, then Error::error_or
Return(es, lv) ==
    /\ errs' = es
    /\ result' = error_or(es)
    /\ phase' = "done"
    /\ level' = lv
    /\ hist' = Append(hist, Summary(argv0, cli, selected, error_or(es), fs0, log, lv))
    /\ UNCHANGED <<fs, fs0, argv0, cli, selected, idx, log>>

perform_compress ==
    /\ phase = "run"
    /\ selected = "Compress"
    /\ \/ /\ idx <= Len(cli.input_files)
          /\ \E o \in compress_iteration(cli.input_files[idx], fs, cli) :
                Iterate(cli.input_files[idx], o)
       \/ /\ idx > Len(cli.input_files)
          /\ IF is_empty(cli)
             THEN \E es \in stdin_errors(cli.stdout) :
                     Return(errs \o es,
                            IF cli.stdout THEN {compress_level(cli)} ELSE level)
             ELSE Return(errs, level)

perform_decompress ==
    /\ phase = "run"
    /\ selected = "Decompress"
    /\ \/ /\ idx <= Len(cli.input_files)
          /\ \E o \in decompress_iteration(cli.input_files[idx], fs, cli,
                                           program_name(argv0)) :
                Iterate(cli.input_files[idx], o)
       \/ /\ idx > Len(cli.input_files)
          /\ IF is_empty(cli)
             THEN \E es \in stdin_errors(is_stdout(cli, program_name(argv0))) :
                     Return(errs \o es, level)
             ELSE Return(errs, level)

perform_test ==
    /\ phase = "run"
    /\ selected = "Test"
    /\ \/ /\ idx <= Len(cli.input_files)
          /\ \E o \in test_iteration(cli.input_files[idx], fs) :
                Iterate(cli.input_files[idx], o)
       \/ /\ idx > Len(cli.input_files)
          /\ Return(errs, level)

(***************************************************************************)
(* Command lines and initial file systems.                                 *)
(***************************************************************************)
Argv0s == {<<"bzip2rs">>, <<"usr", "bin", "bzcat">>, <<"bunzip2">>}

PlainX == <<"x">>
PlainY == <<"y">>

Cli(d, z, k, f, t, c, l, v, b, fast, best, files) ==
    [decompress |-> d, compress |-> z, keep |-> k, force |-> f, test |-> t,
     stdout |-> c, license |-> l, version |-> v, block_size |-> b,
     fast |-> fast, best |-> best, input_files |-> files]

\* command lines with every flag the loops read, for the given lists of files
ArgsFor(lists) ==
    {Cli(d, FALSE, k, f, t, c, l, FALSE, None, FALSE, FALSE, files) :
        d \in BOOLEAN, k \in BOOLEAN, f \in BOOLEAN, t \in BOOLEAN,
        c \in BOOLEAN, l \in BOOLEAN, files \in lists}

\* the command lines of Spec, over the modelled paths
RunArgs == ArgsFor(SeqsUpTo(FsPaths, MaxFiles))

\* each path absent, holding plain bytes, or holding a compressed stream
InitFs == [FsPaths -> {Absent, File(PlainX), File(Encode(PlainX))}]

Idle ==
    /\ argv0 = <<"bzip2rs">>
    /\ cli = Cli(FALSE, FALSE, FALSE, FALSE, FALSE, FALSE, FALSE, FALSE, None,
                 FALSE, FALSE, <<>>)
    /\ phase = "idle"
    /\ selected = "none"
    /\ idx = 1
    /\ errs = <<>>
    /\ log = <<>>
    /\ result = NoResult
    /\ level = {}
    /\ hist = <<>>

Init ==
    /\ fs \in InitFs
    /\ fs0 = fs
    /\ Idle

\* one invocation of the program
Run ==
    /\ phase = "idle"
    /\ \E a0 \in Argv0s, c \in RunArgs : do_main(a0, c)

Next == Run \/ perform_compress \/ perform_decompress \/ perform_test

Spec == Init /\ [][Next]_vars

(***************************************************************************)
(* SpecCli: the argument interpretation alone.  Every flag that            *)
(* Bzip2Cli::mode and Bzip2Cli::compress_level read, over names with each  *)
(* of the suffixes mode tests; block_size is an Option<u8>.                *)
(***************************************************************************)
BlockSizes == {None} \cup {Some(v) : v \in {0, 1, 6, 9, 10, 255}}

CliArgs ==
    {Cli(d, z, FALSE, FALSE, t, FALSE, l, v, b, fast, best, files) :
        d \in BOOLEAN, z \in BOOLEAN, t \in BOOLEAN, l \in BOOLEAN, v \in BOOLEAN,
        b \in BlockSizes, fast \in BOOLEAN, best \in BOOLEAN,
        files \in SeqsUpTo(CliNames, MaxCliFiles)}

Parse ==
    /\ phase = "idle"
    /\ \E a0 \in Argv0s, c \in CliArgs : do_main(a0, c)

\* bzip2::compress: the level it reads from the command line for the engine
bzip2_compress ==
    /\ phase = "run"
    /\ selected = "Compress"
    /\ level' = {compress_level(cli)}
    /\ phase' = "done"
    /\ UNCHANGED <<fs, fs0, argv0, cli, selected, idx, errs, log, result, hist>>

NextCli == Parse \/ bzip2_compress

InitCli ==
    /\ fs = [p \in FsPaths |-> Absent]
    /\ fs0 = fs
    /\ Idle

SpecCli == InitCli /\ [][NextCli]_vars

(***************************************************************************)
(* SpecRoundTrip: a run on one file F and, once that run has compressed F  *)
(* and returned Ok, a second run on F.bz2, with any flags.                 *)
(***************************************************************************)
NameBz2 == <<"b", "z", "2">>
RoundTripNames == {NameA, NameBz2}
RoundTripPaths == RoundTripNames \cup {compress_dest(n) : n \in RoundTripNames}

InitRoundTrip ==
    /\ fs \in [RoundTripPaths -> {Absent, File(PlainX), File(Encode(PlainY))}]
    /\ fs0 = fs
    /\ Idle

OneFileArgs(file) == ArgsFor({<<file>>})

FirstRun ==
    /\ phase = "idle"
    /\ \E a0 \in Argv0s, file \in RoundTripNames :
          \E c \in OneFileArgs(file) : do_main(a0, c)

SecondRun ==
    /\ phase = "done"
    /\ Len(hist) = 1
    /\ hist[1].selected = "Compress"
    /\ hist[1].result.ok
    /\ \E a0 \in Argv0s, c \in OneFileArgs(compress_dest(hist[1].cli.input_files[1])) :
          do_main(a0, c)

NextRoundTrip ==
    FirstRun \/ SecondRun \/ perform_compress \/ perform_decompress \/ perform_test

SpecRoundTrip == InitRoundTrip /\ [][NextRoundTrip]_vars

(***************************************************************************)
(* Properties.                                                             *)
(***************************************************************************)
Files == cli.input_files
Pname == program_name(argv0)
Returned == phase = "done"
\* the run wrote its output to files: no -c, and not called as bzcat
ToFile(c, a0) == ~c.stdout /\ program_name(a0) # "bzcat"

\* C1 as stated, read in its favour (the first run wrote F.bz2 to a file, the
\* second run is a decompression): after do_main compressed F and do_main then ran
\* on F.bz2, both without -k and both returning Ok, F holds its original content
\* and F.bz2 does not exist.
C1_RoundTripAnyOutput ==
    (/\ Returned
     /\ Len(hist) = 2
     /\ hist[1].selected = "Compress" /\ hist[1].result.ok /\ ~hist[1].cli.keep
     /\ ToFile(hist[1].cli, hist[1].argv0)
     /\ hist[2].selected = "Decompress" /\ hist[2].result.ok /\ ~hist[2].cli.keep)
    => LET F == hist[1].cli.input_files[1]
       IN  /\ fs[F] = hist[1].before[F]
           /\ fs[F].exists
           /\ ~fs[F \o Bz2].exists

\* C1 amended: round trip.  After do_main compressed F to the file F.bz2 and
\* do_main then decompressed F.bz2 to a file (neither run with -k or -c, neither
\* called as bzcat, both returning Ok), F exists with exactly its original content
\* and F.bz2 does not exist.
C1_RoundTrip ==
    (/\ Returned
     /\ Len(hist) = 2
     /\ hist[1].selected = "Compress" /\ hist[1].result.ok /\ ~hist[1].cli.keep
     /\ ToFile(hist[1].cli, hist[1].argv0)
     /\ hist[2].selected = "Decompress" /\ hist[2].result.ok /\ ~hist[2].cli.keep
     /\ ToFile(hist[2].cli, hist[2].argv0))
    => LET F == hist[1].cli.input_files[1]
       IN  /\ fs[F] = hist[1].before[F]
           /\ fs[F].exists
           /\ ~fs[F \o Bz2].exists

\* a completed round trip through files: F was there, was compressed over an
\* existing F.bz2 of other content with -f, and was restored by the second run
C1_Witness ==
    /\ Returned
    /\ Len(hist) = 2
    /\ hist[1].selected = "Compress" /\ hist[1].result.ok /\ ~hist[1].cli.keep
    /\ ToFile(hist[1].cli, hist[1].argv0)
    /\ hist[2].selected = "Decompress" /\ hist[2].result.ok /\ ~hist[2].cli.keep
    /\ ToFile(hist[2].cli, hist[2].argv0)
    /\ hist[1].cli.input_files = <<NameBz2>>
    /\ hist[1].before[NameBz2] = File(PlainX)
    /\ hist[1].before[NameBz2 \o Bz2] = File(Encode(PlainY))
    /\ hist[2].before[NameBz2] = Absent
    /\ fs[NameBz2] = File(PlainX)

\* C2: replace-input postcondition.  When do_main returns Ok for a single input
\* file F in compress or decompress mode with output to a file (no -c, not bzcat),
\* the counterpart exists (F.bz2 when compressing, F without its .bz2 suffix when
\* decompressing), and F is gone if and only if -k was not given.
C2_ReplaceInput ==
    (/\ Returned /\ result.ok
     /\ selected \in {"Compress", "Decompress"}
     /\ Len(Files) = 1
     /\ ToFile(cli, argv0))
    => LET F == Files[1]
       IN  /\ IF selected = "Compress"
              THEN Exists(fs, F \o Bz2)
              ELSE \E G \in DOMAIN fs : G \o Bz2 = F /\ Exists(fs, G)
           /\ ~Exists(fs, F) <=> ~cli.keep

\* a decompression of one file to its counterpart that returned Ok and removed it
C2_Witness ==
    /\ Returned /\ result.ok
    /\ selected = "Decompress"
    /\ Files = <<NameABz2>>
    /\ ToFile(cli, argv0)
    /\ ~cli.keep
    /\ Exists(fs0, NameABz2)
    /\ ~Exists(fs, NameABz2)
    /\ fs[NameA] = File(PlainX)

\* C3: integrity test result.  -t without -d, under a program name that is neither
\* bunzip2 nor bzcat, selects the test loop; when that loop returns, every listed
\* file was tested, in order, whatever happened to the files before it; a file
\* passes only if it exists and decodes; and do_main returns Ok if and only if
\* every listed file passed.
C3_TestResult ==
    /\ (phase # "idle" /\ selected # "none" /\ cli.test /\ ~cli.decompress
        /\ Pname \notin {"bunzip2", "bzcat"}) => selected = "Test"
    /\ (Returned /\ selected = "Test") =>
          /\ Len(log) = Len(Files)
          /\ \A i \in 1..Len(Files) :
                /\ log[i].file = Files[i]
                /\ log[i].tag = "ok" =>
                      (Exists(fs, Files[i]) /\ Decodable(fs[Files[i]].bytes))
                /\ ~Exists(fs, Files[i]) => log[i].tag = "open_err"
          /\ result.set
          /\ result.ok <=> \A i \in 1..Len(Files) : log[i].tag = "ok"

\* a test of two files where the first failed to decode, the second was still
\* tested and passed, and do_main returned an error
C3_Witness ==
    /\ Returned /\ selected = "Test"
    /\ Len(Files) = 2
    /\ log[1].tag = "engine_err"
    /\ log[2].tag = "ok"
    /\ ~result.ok

\* C4: with -z and without -d, Bzip2Cli::mode returns Compress, for every program
\* name and every list of input files.
C4_ForceCompress ==
    (phase # "idle" /\ selected # "none" /\ cli.compress /\ ~cli.decompress)
    => selected = "Compress"

\* C5: the level handed to the compression engine lies in 1..9.
C5_LevelRange == \A l \in level : l \in 1..9

\* the input file at the loop's position, when it has a destination
HasDestination ==
    /\ phase = "run"
    /\ idx <= Len(Files)
    /\ \/ selected = "Compress" /\ ~EndsWith(Files[idx], Bz2)
       \/ selected = "Decompress" /\ EndsWith(Files[idx], Bz2)

\* whether path is the destination of the input file at the loop's position
IsDestination(path) ==
    IF selected = "Compress" THEN path = Files[idx] \o Bz2 ELSE path \o Bz2 = Files[idx]

\* C6: no overwrite without -f.  In compress and decompress mode, the iteration for
\* an input file whose destination exists, when -f is not given, changes no file
\* (neither the destination nor the input), pushes a FileExists error naming the
\* destination, and goes on to the next input file; and when the loop returns,
\* every input file was visited and every error pushed is in the result.
C6_NoOverwrite ==
    [][/\ \A dest \in DOMAIN fs :
             (HasDestination /\ IsDestination(dest) /\ ~cli.force /\ Exists(fs, dest))
             => /\ fs' = fs
                /\ errs' = Append(errs, FileExists(dest))
                /\ phase' = "run" /\ cli' = cli /\ idx' = idx + 1
       /\ (phase = "run" /\ phase' = "done")
             => /\ idx = Len(Files) + 1
                /\ Len(log) = Len(Files)
                /\ result'.errs = errs' /\ SubSeq(errs', 1, Len(errs)) = errs
                /\ errs # <<>> => ~result'.ok]_vars

\* a decompression without -f whose first input file was refused because its
\* destination exists (neither file was touched), and whose second input file was
\* then decompressed
C6_Witness ==
    /\ Returned
    /\ selected = "Decompress"
    /\ ~cli.force /\ cli.keep /\ ToFile(cli, argv0)
    /\ Files = <<NameABz2Bz2, NameABz2>>
    /\ log[1].tag = "file_exists"
    /\ log[2].tag = "ok"
    /\ result.errs = <<FileExists(NameABz2)>>
    /\ Exists(fs0, NameABz2Bz2) /\ fs[NameABz2Bz2] = fs0[NameABz2Bz2]
    /\ Exists(fs0, NameABz2) /\ fs[NameABz2] = fs0[NameABz2]
    /\ ~Exists(fs0, NameA) /\ Exists(fs, NameA)

\* C7: no data loss on failure.  In compress and decompress mode without -k, an
\* input file is removed only if the operation on it completed without error.
C7_NoDataLoss ==
    (Returned /\ selected \in {"Compress", "Decompress"} /\ ~cli.keep)
    => \A i \in 1..Len(log) : log[i].removed => log[i].tag = "ok"

====
